---------------------------- MODULE Spec2Model ----------------------------
(***************************************************************************)
(* pumpcalc.py: head loss of incompressible flow through straight pipe and *)
(* fittings (clean commercial steel, schedule 40).                         *)
(*                                                                         *)
(* The program computes with Python floats.  A float is modelled as a      *)
(* decimal floating-point number m * 10^e with a signed mantissa of        *)
(* Digits significant digits; every arithmetic operation rounds its exact   *)
(* result to the nearest such number, ties to even, as IEEE-754 does with  *)
(* 53 binary digits.  Rounding is therefore part of the model: sums are    *)
(* not associative and products do not distribute, as in the program.      *)
(* Exceptions are outcomes: an operation that can raise returns a record   *)
(* [exc, val] and the first exception raised propagates to the caller.     *)
(***************************************************************************)
EXTENDS Integers, Sequences, FiniteSets, TLC

(***************************************************************************)
(* Python float arithmetic                                                 *)
(***************************************************************************)

\* significant decimal digits kept by a float of the model
Digits == 4

Abs(n) == IF n < 0 THEN -n ELSE n

Sgn(n) == IF n < 0 THEN -1 ELSE IF n = 0 THEN 0 ELSE 1

RECURSIVE NumDigits(_)
NumDigits(n) == IF n < 10 THEN 1 ELSE 1 + NumDigits(n \div 10)

\* the float 0.0
Zero == [m |-> 0, e |-> 0]

\* s * q * 10^e with q of Digits digits or, after a carry, 10^Digits
Carry(s, q, e) ==
    IF q = 10^Digits THEN [m |-> s * 10^(Digits - 1), e |-> e + 1]
    ELSE [m |-> s * q, e |-> e]

\* s * (q + r/p) * 10^e rounded to an integer mantissa, half to even
RoundOff(s, q, r, p, e) ==
    Carry(s, IF (2 * r > p) \/ (2 * r = p /\ q % 2 = 1) THEN q + 1 ELSE q, e)

\* s * a * 10^e for a > 0 of d digits
RoundAbs(s, a, d, e) ==
    IF d <= Digits
    THEN [m |-> s * a * 10^(Digits - d), e |-> e - (Digits - d)]
    ELSE RoundOff(s, a \div 10^(d - Digits), a % 10^(d - Digits), 10^(d - Digits),
                  e + (d - Digits))

\* the float nearest to n * 10^e (round half to even)
Round(n, e) ==
    IF n = 0 THEN Zero ELSE RoundAbs(Sgn(n), Abs(n), NumDigits(Abs(n)), e)

\* an int operand converted to float
FromInt(n) == Round(n, 0)

\* a * b
FMul(a, b) == Round(a.m * b.m, a.e + b.e)

\* a + b
FAdd(a, b) ==
    IF a.m = 0 THEN b
    ELSE IF b.m = 0 THEN a
    ELSE LET hi == IF a.e >= b.e THEN a ELSE b
             lo == IF a.e >= b.e THEN b ELSE a
             d  == hi.e - lo.e
         IN  IF d >= Digits + 2 THEN hi
             ELSE Round(hi.m * 10^d + lo.m, lo.e)

\* a normal return and a raised exception
Ok(v) == [exc |-> "none", val |-> v]

Raise(x) == [exc |-> x, val |-> Zero]

\* the float nearest to s * (n / b) * 10^e: the quotient with a sticky last digit
DivRound(s, n, b, e) ==
    Round(s * ((n \div b) * 10 + (IF n % b = 0 THEN 0 ELSE 1)), e)

\* a / b: Python raises ZeroDivisionError for a zero divisor
FDiv(a, b) ==
    IF b.m = 0 THEN Raise("ZeroDivisionError")
    ELSE Ok(DivRound(Sgn(a.m) * Sgn(b.m), Abs(a.m) * 10^(Digits + 1), Abs(b.m),
                     a.e - b.e - (Digits + 2)))

\* the rest of a computation, F, runs on the value of r unless r raised: the
\* exception then propagates
Then(r, F(_)) == IF r.exc # "none" THEN r ELSE F(r.val)

\* x ** 2
FSquare(x) == FMul(x, x)

\* binary digits of log2(y / 2^14) for 2^14 <= y < 2^15, by repeated squaring
RECURSIVE LogBits(_, _, _)
LogBits(y, k, acc) ==
    IF k = 0 THEN acc
    ELSE IF (y * y) \div 16384 >= 32768
         THEN LogBits(((y * y) \div 16384) \div 2, k - 1, 2 * acc + 1)
         ELSE LogBits((y * y) \div 16384, k - 1, 2 * acc)

\* 2^14 * log2(y0 / 2^14) for 2^14 <= y0 < 10 * 2^14
Log2Fixed(y0) ==
    IF y0 >= 131072 THEN 3 * 16384 + LogBits(y0 \div 8, 14, 0)
    ELSE IF y0 >= 65536 THEN 2 * 16384 + LogBits(y0 \div 4, 14, 0)
    ELSE IF y0 >= 32768 THEN 16384 + LogBits(y0 \div 2, 14, 0)
    ELSE LogBits(y0, 14, 0)

\* math.log10(x): ValueError ("math domain error") for x <= 0; log10(m * 10^e) is
\* e + Digits - 1 + log2(m / 10^(Digits-1)) * log10(2)
Log10(x) ==
    IF x.m <= 0 THEN Raise("ValueError")
    ELSE Ok(Round((x.e + Digits - 1) * 100000
                  + (Log2Fixed((x.m * 16384) \div 10^(Digits - 1)) * 30103 + 8192)
                        \div 16384,
                  -5))

(***************************************************************************)
(* Program state                                                           *)
(***************************************************************************)

VARIABLES
    EPSILON,        \* module global: absolute roughness (ft)
    GRAV_CONST,     \* module global: gravitational constant (ft/sec^2)
    pc,             \* "idle", "loop" (inside the for loop of head_loss_fittings), "done"
    fn,             \* the function being called
    dia,            \* argument dia
    vflow,          \* argument vflow / gpm
    length,         \* argument length
    fittings_dict,  \* argument fittings_dict, in the dict's iteration order
    K,              \* local K of head_loss_fittings
    i,              \* position of the for loop in fittings_dict.items()
    stdout,         \* the keys printed by the call ('Fitting of unknown type: ...')
    ret             \* the call's outcome: a return value or a raised exception

vars == <<EPSILON, GRAV_CONST, pc, fn, dia, vflow, length, fittings_dict, K, i,
          stdout, ret>>

\* the literal m.pi
PI == Round(314159265, -8)

(***************************************************************************)
(* The functions of pumpcalc.py                                            *)
(***************************************************************************)

\* area = (m.pi * (dia / 2) ** 2) / 144
find_area(d) ==
    FDiv(FMul(PI, FSquare(FDiv(d, FromInt(2)).val)), FromInt(144)).val

\* q = gpm * 0.002228
vflow_gpm_to_ft3_per_sec(gpm) == FMul(gpm, Round(2228, -6))

\* vel = q / area
find_avg_velocity(v, area) == FDiv(vflow_gpm_to_ft3_per_sec(v), area)

\* f = 0.25 / (m.log10((EPSILON / (dia / 12)) / 3.7) ** 2)
friction_factor_commercial_steel_sch40(d) ==
    Then(FDiv(EPSILON, FDiv(d, FromInt(12)).val), LAMBDA t :
    Then(Log10(FDiv(t, Round(37, -1)).val), LAMBDA lg :
    FDiv(Round(25, -2), FSquare(lg))))

\* fault: head_loss_straight_pipe returning the converted flow q in place of vel
head_loss_straight_pipe_returns_q(v, d, len) ==
    Then(FDiv(vflow_gpm_to_ft3_per_sec(v), find_area(d)), LAMBDA vel :
    Then(friction_factor_commercial_steel_sch40(d), LAMBDA f :
    Then(FDiv(len, FDiv(d, FromInt(12)).val), LAMBDA ld :
    Then(FDiv(FSquare(vel), FMul(FromInt(2), GRAV_CONST)), LAMBDA hv :
    Ok([head_loss |-> FMul(FMul(f, ld), hv), vel |-> vflow_gpm_to_ft3_per_sec(v)])))))

\* area = find_area(dia); q = ...; vel = q / area; f = friction_factor...(dia);
\* head_loss = f * (length / (dia / 12)) * (vel ** 2 / (2 * GRAV_CONST));
\* return head_loss, vel  (the two components of the returned pair carry the
\* names the source gives them)
head_loss_straight_pipe(v, d, len) ==
    Then(FDiv(vflow_gpm_to_ft3_per_sec(v), find_area(d)), LAMBDA vel :
    Then(friction_factor_commercial_steel_sch40(d), LAMBDA f :
    Then(FDiv(len, FDiv(d, FromInt(12)).val), LAMBDA ld :
    Then(FDiv(FSquare(vel), FMul(FromInt(2), GRAV_CONST)), LAMBDA hv :
    Ok([head_loss |-> FMul(FMul(f, ld), hv), vel |-> vel])))))

\* the state of the for loop after a pass: the exception raised if any, K, and the
\* lines the pass printed
Pass(exc, Kc, out) == [exc |-> exc, K |-> Kc, out |-> out]

\* K += mult * f * number, f the outcome of the friction factor call
accumulate(Kc, mult, f, number) ==
    Pass(f.exc,
         IF f.exc # "none" THEN Kc
         ELSE FAdd(Kc, FMul(FMul(FromInt(mult), f.val), FromInt(number))),
         <<>>)

\* fault: K += mult * f, the entry's count forgotten
add_K_ignores_number(Kc, mult, d, number) ==
    accumulate(Kc, mult, friction_factor_commercial_steel_sch40(d), 1)

\* K += mult * friction_factor_commercial_steel_sch40(dia) * data['number']
add_K(Kc, mult, d, number) ==
    accumulate(Kc, mult, friction_factor_commercial_steel_sch40(d), number)

\* fault: the else branch raising instead of printing
fittings_body_unknown_raises(Kc, key, number, d) ==
    IF key = "Gate Valve" THEN add_K(Kc, 8, d, number)
    ELSE IF key = "Globe Valve" THEN add_K(Kc, 340, d, number)
    ELSE IF key = "Swing Check Valve" THEN add_K(Kc, 100, d, number)
    ELSE IF key = "Ball Valve" THEN add_K(Kc, 3, d, number)
    ELSE IF key = "90 Deg Elbow LR" THEN add_K(Kc, 14, d, number)
    ELSE Pass("KeyError", Kc, <<>>)

\* fault: the Ball Valve branch assigning (K = ...) instead of accumulating (K += ...)
fittings_body_ball_assigns(Kc, key, number, d) ==
    IF key = "Gate Valve" THEN add_K(Kc, 8, d, number)
    ELSE IF key = "Globe Valve" THEN add_K(Kc, 340, d, number)
    ELSE IF key = "Swing Check Valve" THEN add_K(Kc, 100, d, number)
    ELSE IF key = "Ball Valve" THEN add_K(Zero, 3, d, number)
    ELSE IF key = "90 Deg Elbow LR" THEN add_K(Kc, 14, d, number)
    ELSE Pass("none", Kc, <<key>>)

\* one pass of the body of "for key, data in fittings_dict.items()"; the else
\* branch prints 'Fitting of unknown type: <key>'
fittings_body(Kc, key, number, d) ==
    IF key = "Gate Valve" THEN add_K(Kc, 8, d, number)
    ELSE IF key = "Globe Valve" THEN add_K(Kc, 340, d, number)
    ELSE IF key = "Swing Check Valve" THEN add_K(Kc, 100, d, number)
    ELSE IF key = "Ball Valve" THEN add_K(Kc, 3, d, number)
    ELSE IF key = "90 Deg Elbow LR" THEN add_K(Kc, 14, d, number)
    ELSE Pass("none", Kc, <<key>>)

\* fault: head_loss = K + (vel ** 2 / (2 * GRAV_CONST))
fittings_tail_adds(Kc, d, v) ==
    Then(find_avg_velocity(v, find_area(d)), LAMBDA vel :
    Then(FDiv(FSquare(vel), FMul(FromInt(2), GRAV_CONST)), LAMBDA hv :
    Ok(FAdd(Kc, hv))))

\* the statements after the loop: area = find_area(dia); vel = find_avg_velocity(vflow,
\* area); head_loss = K * (vel ** 2 / (2 * GRAV_CONST)); return head_loss
fittings_tail(Kc, d, v) ==
    Then(find_avg_velocity(v, find_area(d)), LAMBDA vel :
    Then(FDiv(FSquare(vel), FMul(FromInt(2), GRAV_CONST)), LAMBDA hv :
    Ok(FMul(Kc, hv))))

\* the for loop from item k on, with K = Kc and out already printed; after_pass
\* goes on from the pass r of item k
RECURSIVE fittings_loop(_, _, _, _, _)
RECURSIVE after_pass(_, _, _, _, _)
fittings_loop(items, d, k, Kc, out) ==
    IF k > Len(items) THEN Pass("none", Kc, out)
    ELSE after_pass(items, d, k, out,
                    fittings_body(Kc, items[k].key, items[k].number, d))

after_pass(items, d, k, out, r) ==
    IF r.exc # "none" THEN Pass(r.exc, r.K, out \o r.out)
    ELSE fittings_loop(items, d, k + 1, r.K, out \o r.out)

\* the outcome of a call whose loop ended as lp, and what the call printed
fittings_outcome(lp, d, v) ==
    [ret    |-> IF lp.exc # "none" THEN Raise(lp.exc) ELSE fittings_tail(lp.K, d, v),
     stdout |-> lp.out]

\* a whole call of head_loss_fittings
head_loss_fittings(items, d, v) ==
    fittings_outcome(fittings_loop(items, d, 1, Zero, <<>>), d, v)

(***************************************************************************)
(* Inputs                                                                  *)
(***************************************************************************)

\* longest fittings_dict a caller passes
MaxEntries == 3

\* the keys of the if/elif chain
SupportedNames == {"Gate Valve", "Globe Valve", "Swing Check Valve", "Ball Valve",
                   "90 Deg Elbow LR"}

\* the entries callers pass: the driver's fittings dict, a Swing Check Valve, and
\* a second key the if/elif chain does not know
FittingEntries ==
    {[key |-> "Gate Valve", number |-> 1],
     [key |-> "Globe Valve", number |-> 1],
     [key |-> "Swing Check Valve", number |-> 2],
     [key |-> "Ball Valve", number |-> 4],
     [key |-> "90 Deg Elbow LR", number |-> 8],
     [key |-> "Sprocket", number |-> 1],
     [key |-> "Flange", number |-> 2]}

\* dicts: no key twice
FittingsDicts ==
    {s \in UNION {[1..n -> FittingEntries] : n \in 0..MaxEntries} :
        \A a, b \in DOMAIN s : a # b => s[a].key # s[b].key}

\* diameters (in): 6 and 2, then 0, -1 and 0.0001 (relative roughness above 1)
Diameters == {FromInt(6), FromInt(2), Zero, FromInt(-1), Round(1, -4)}

\* flows (GPM)
Flows == {FromInt(400), FromInt(150)}

\* lengths (ft)
Lengths == {FromInt(100), Zero, FromInt(-100)}

(***************************************************************************)
(* Calls                                                                   *)
(***************************************************************************)

Frame(f, d, v, len, items) ==
    /\ fn' = f
    /\ dia' = d
    /\ vflow' = v
    /\ length' = len
    /\ fittings_dict' = items

Init ==
    /\ EPSILON = Round(15, -5)
    /\ GRAV_CONST = Round(32174, -3)
    /\ pc = "idle"
    /\ fn = "none"
    /\ dia = Zero
    /\ vflow = Zero
    /\ length = Zero
    /\ fittings_dict = <<>>
    /\ K = Zero
    /\ i = 0
    /\ stdout = <<>>
    /\ ret = Ok(Zero)

CallFindArea ==
    /\ pc = "idle"
    /\ \E d \in Diameters :
        /\ Frame("find_area", d, Zero, Zero, <<>>)
        /\ ret' = Ok(find_area(d))
    /\ pc' = "done"
    /\ UNCHANGED <<EPSILON, GRAV_CONST, K, i, stdout>>

CallVflow ==
    /\ pc = "idle"
    /\ \E v \in Flows :
        /\ Frame("vflow_gpm_to_ft3_per_sec", Zero, v, Zero, <<>>)
        /\ ret' = Ok(vflow_gpm_to_ft3_per_sec(v))
    /\ pc' = "done"
    /\ UNCHANGED <<EPSILON, GRAV_CONST, K, i, stdout>>

CallFrictionFactor ==
    /\ pc = "idle"
    /\ \E d \in Diameters :
        /\ Frame("friction_factor_commercial_steel_sch40", d, Zero, Zero, <<>>)
        /\ ret' = friction_factor_commercial_steel_sch40(d)
    /\ pc' = "done"
    /\ UNCHANGED <<EPSILON, GRAV_CONST, K, i, stdout>>

CallStraightPipe ==
    /\ pc = "idle"
    /\ \E v \in Flows, d \in Diameters, len \in Lengths :
        /\ Frame("head_loss_straight_pipe", d, v, len, <<>>)
        /\ ret' = head_loss_straight_pipe(v, d, len)
    /\ pc' = "done"
    /\ UNCHANGED <<EPSILON, GRAV_CONST, K, i, stdout>>

\* head_loss_fittings is entered: K = 0
CallFittings ==
    /\ pc = "idle"
    /\ \E items \in FittingsDicts, d \in Diameters, v \in Flows :
        Frame("head_loss_fittings", d, v, Zero, items)
    /\ K' = Zero
    /\ i' = 1
    /\ stdout' = <<>>
    /\ pc' = "loop"
    /\ UNCHANGED <<EPSILON, GRAV_CONST, ret>>

\* the effect of the pass r of item i on the frame
AfterPass(r) ==
    /\ K' = r.K
    /\ stdout' = stdout \o r.out
    /\ pc' = IF r.exc # "none" THEN "done" ELSE "loop"
    /\ ret' = IF r.exc # "none" THEN Raise(r.exc) ELSE ret
    /\ i' = IF r.exc # "none" THEN i ELSE i + 1

\* fault: the loop consuming the caller's dict, each item removed once processed
FittingsIterConsumes ==
    /\ pc = "loop"
    /\ i <= Len(fittings_dict)
    /\ AfterPass(fittings_body(K, fittings_dict[i].key, fittings_dict[i].number, dia))
    /\ fittings_dict' = SubSeq(fittings_dict, 1, i - 1)
                            \o SubSeq(fittings_dict, i + 1, Len(fittings_dict))
    /\ UNCHANGED <<EPSILON, GRAV_CONST, fn, dia, vflow, length>>

\* the loop body runs on the next item; an exception ends the call
FittingsIter ==
    /\ pc = "loop"
    /\ i <= Len(fittings_dict)
    /\ AfterPass(fittings_body(K, fittings_dict[i].key, fittings_dict[i].number, dia))
    /\ UNCHANGED <<EPSILON, GRAV_CONST, fn, dia, vflow, length, fittings_dict>>

\* the loop is over: area, velocity, head loss, return
FittingsReturn ==
    /\ pc = "loop"
    /\ i > Len(fittings_dict)
    /\ ret' = fittings_tail(K, dia, vflow)
    /\ pc' = "done"
    /\ UNCHANGED <<EPSILON, GRAV_CONST, fn, dia, vflow, length, fittings_dict, K, i,
                   stdout>>

\* the caller has the outcome; the frame is gone
Return ==
    /\ pc = "done"
    /\ pc' = "idle"
    /\ Frame("none", Zero, Zero, Zero, <<>>)
    /\ K' = Zero
    /\ i' = 0
    /\ stdout' = <<>>
    /\ ret' = Ok(Zero)
    /\ UNCHANGED <<EPSILON, GRAV_CONST>>

Next ==
    \/ CallFindArea
    \/ CallVflow
    \/ CallFrictionFactor
    \/ CallStraightPipe
    \/ CallFittings
    \/ FittingsIter
    \/ FittingsReturn
    \/ Return

Spec == Init /\ [][Next]_vars

(***************************************************************************)
(* Vocabulary of the properties                                            *)
(***************************************************************************)

Finished(f) == pc = "done" /\ fn = f

Returned == ret.exc = "none"

FNeg(a) == [m |-> -a.m, e |-> a.e]

FAbs(a) == [m |-> Abs(a.m), e |-> a.e]

\* a < b, a <= b
FLt(a, b) == FAdd(a, FNeg(b)).m < 0

FLe(a, b) == FAdd(a, FNeg(b)).m <= 0

FMax(a, b) == IF FLt(a, b) THEN b ELSE a

\* relativeRoughness = (EPSILON / (diameterInches/12)) / 3.7, where it is defined
RelativeRoughness(d) ==
    FDiv(FDiv(Round(15, -5), FDiv(d, FromInt(12)).val).val, Round(37, -1)).val

\* a diameter the design accepts: positive, relative roughness inside (0,1)
ValidDiameter(d) ==
    /\ FLt(Zero, d)
    /\ FLt(Zero, RelativeRoughness(d))
    /\ FLt(RelativeRoughness(d), FromInt(1))

\* the design's table of K multipliers
KMultiplier(key) ==
    CASE key = "Gate Valve" -> 8
      [] key = "Globe Valve" -> 340
      [] key = "Swing Check Valve" -> 100
      [] key = "Ball Valve" -> 3
      [] key = "90 Deg Elbow LR" -> 14

IsSupported(en) == en.key \in SupportedNames

SupportedEntries(items) == SelectSeq(items, IsSupported)

IsUnknown(en) == en.key \notin SupportedNames

UnknownKeys(items) ==
    LET u == SelectSeq(items, IsUnknown) IN [k \in 1..Len(u) |-> u[k].key]

IsPrefix(s, t) == Len(s) <= Len(t) /\ s = SubSeq(t, 1, Len(s))

\* sum of multiplier * f * count over the first k entries of a sequence, term by term
RECURSIVE KTotal(_, _, _)
KTotal(items, k, f) ==
    IF k = 0 THEN Zero
    ELSE FAdd(KTotal(items, k - 1, f),
              FMul(FMul(FromInt(KMultiplier(items[k].key)), f), FromInt(items[k].number)))

\* the integer sum of multiplier * count
RECURSIVE CoefficientSum(_, _)
CoefficientSum(items, k) ==
    IF k = 0 THEN 0
    ELSE CoefficientSum(items, k - 1) + KMultiplier(items[k].key) * items[k].number

\* the relative difference of a and b is at most n * 10^(1 - Digits), n times the
\* spacing of the floats
WithinRounding(a, b, n) ==
    FLe(FMul(Round(1, Digits - 1), FAbs(FAdd(a, FNeg(b)))),
        FMul(FromInt(n), FMax(FAbs(a), FAbs(b))))

\* every iteration order of a dict
Orders(items) ==
    {[k \in 1..Len(items) |-> items[p[k]]] : p \in Permutations(1..Len(items))}

\* velocity = convertedFlow / area(diameter), with the design's conversion constant
DesignVelocity(v, d) == FDiv(FMul(v, Round(2228, -6)), find_area(d)).val

\* velocity^2 / (2 g), with the design's g = 32.174
VelocityHead(vel) == FDiv(FSquare(vel), FMul(FromInt(2), Round(32174, -3))).val

(***************************************************************************)
(* Properties                                                              *)
(***************************************************************************)

\* C1: an unknown fitting name never makes head_loss_fittings fail.  The outcome of
\* a call is the outcome of the same call without the unknown entries (they add
\* nothing to K and raise nothing); a call that returns has printed exactly one
\* notice per unknown entry, naming it, in iteration order, and none for a
\* supported entry; with a valid diameter the call returns a head loss.
C1_UnknownFittingSkipped ==
    Finished("head_loss_fittings") =>
        LET known == SupportedEntries(fittings_dict)
            lp    == fittings_loop(known, dia, 1, Zero, <<>>)
            ref   == fittings_outcome(lp, dia, vflow)
        IN  /\ ret = ref.ret
            /\ ref.stdout = <<>>
            /\ IsPrefix(stdout, UnknownKeys(fittings_dict))
            /\ Returned => /\ stdout = UnknownKeys(fittings_dict)
                           /\ K = lp.K
            /\ ValidDiameter(dia) => Returned

C1_Witness ==
    /\ Finished("head_loss_fittings")
    /\ Returned
    /\ ValidDiameter(dia)
    /\ Len(fittings_dict) = 3
    /\ fittings_dict[1].key = "Flange"
    /\ fittings_dict[2].key = "Ball Valve"
    /\ fittings_dict[3].key = "Sprocket"
    /\ stdout = <<"Flange", "Sprocket">>
    /\ K # Zero
    /\ ret.val # Zero

C3_InvalidDiameterRejected ==
    (/\ pc = "done"
     /\ fn \in {"find_area", "head_loss_straight_pipe", "head_loss_fittings"}
     /\ FLe(dia, Zero))
        => ret.exc \notin {"none", "ZeroDivisionError"}

\* C4: head_loss_straight_pipe raises for every length < 0 and returns no head loss
\* for it, whatever the valid flow and diameter.
C4_NegativeLengthRejected ==
    (/\ Finished("head_loss_straight_pipe")
     /\ ValidDiameter(dia)
     /\ FLt(length, Zero))
        => ~Returned

\* C5: friction_factor_commercial_steel_sch40 raises whenever the relative roughness
\* is <= 0 or >= 1; it returns a friction factor only for a relative roughness
\* strictly inside (0,1).
C5_RoughnessDomainChecked ==
    (Finished("friction_factor_commercial_steel_sch40") /\ Returned)
        => /\ dia # Zero
           /\ FLt(Zero, RelativeRoughness(dia))
           /\ FLt(RelativeRoughness(dia), FromInt(1))

\* C6: a call of head_loss_fittings that ends in an exception has produced nothing
\* before: it fails before any entry is processed, so it has printed no notice.
C6_AbortBeforeAnyOutput ==
    (Finished("head_loss_fittings") /\ ~Returned)
        => /\ stdout = <<>>
           /\ i = 1
           /\ K = Zero

\* C7 as stated: K_total and the returned head loss are the same for every
\* iteration order of the manifest.
C7_OrderIndependentExactly ==
    (Finished("head_loss_fittings") /\ ValidDiameter(dia)) =>
        \A p \in Orders(fittings_dict) :
            LET lp == fittings_loop(p, dia, 1, Zero, <<>>)
            IN  /\ lp.K = K
                /\ fittings_outcome(lp, dia, vflow).ret = ret

\* C7 amended: for every iteration order of the manifest the call returns, prints
\* the same set of notices, and K_total and the head loss agree with those of any
\* other order up to floating-point rounding: their relative difference is at most
\* the spacing of the floats times the number of entries.  (Two entries or fewer:
\* they are equal.)
C7_OrderIndependentUpToRounding ==
    (Finished("head_loss_fittings") /\ ValidDiameter(dia)) =>
        \A p \in Orders(fittings_dict) :
            LET lp    == fittings_loop(p, dia, 1, Zero, <<>>)
                other == fittings_outcome(lp, dia, vflow)
                Kp    == lp.K
                n     == Len(fittings_dict)
            IN  /\ Returned
                /\ other.ret.exc = "none"
                /\ Len(other.stdout) = Len(stdout)
                /\ {other.stdout[k] : k \in 1..Len(stdout)}
                       = {stdout[k] : k \in 1..Len(stdout)}
                /\ WithinRounding(Kp, K, n)
                /\ WithinRounding(other.ret.val, ret.val, n)
                /\ n <= 2 => (Kp = K /\ other.ret = ret)

\* three entries whose sum depends on the order it is taken in
C7_Witness ==
    /\ Finished("head_loss_fittings")
    /\ Returned
    /\ ValidDiameter(dia)
    /\ Len(fittings_dict) = 3
    /\ \E p \in Orders(fittings_dict) :
          LET lp == fittings_loop(p, dia, 1, Zero, <<>>)
          IN  /\ lp.K # K
              /\ fittings_outcome(lp, dia, vflow).ret # ret

\* C8: with an empty manifest and a valid diameter and flow head_loss_fittings
\* returns exactly 0 and prints no notice.
C8_EmptyManifestIsZero ==
    (/\ Finished("head_loss_fittings")
     /\ fittings_dict = <<>>
     /\ ValidDiameter(dia))
        => /\ ret = Ok(Zero)
           /\ stdout = <<>>

C8_Witness ==
    /\ Finished("head_loss_fittings")
    /\ fittings_dict = <<>>
    /\ ValidDiameter(dia)
    /\ vflow = FromInt(400)
    /\ Returned

\* the outcome a call has when it is the first call made: a function of its
\* arguments and of the globals as the module sets them
FirstOutcome(f, d, v, len, items) ==
    CASE f = "find_area" -> [ret |-> Ok(find_area(d)), stdout |-> <<>>]
      [] f = "vflow_gpm_to_ft3_per_sec" ->
             [ret |-> Ok(vflow_gpm_to_ft3_per_sec(v)), stdout |-> <<>>]
      [] f = "friction_factor_commercial_steel_sch40" ->
             [ret |-> friction_factor_commercial_steel_sch40(d), stdout |-> <<>>]
      [] f = "head_loss_straight_pipe" ->
             [ret |-> head_loss_straight_pipe(v, d, len), stdout |-> <<>>]
      [] f = "head_loss_fittings" -> head_loss_fittings(items, d, v)

\* C9: every operation is stateless.  No step of any call changes EPSILON,
\* GRAV_CONST or the manifest the call was given, and whatever calls were made
\* before (failed ones and ones that printed notices included), a call that ends
\* has the outcome and the notices of the same call made first.
C9_Stateless ==
    [][/\ EPSILON' = EPSILON
       /\ GRAV_CONST' = GRAV_CONST
       /\ EPSILON' = Round(15, -5)
       /\ GRAV_CONST' = Round(32174, -3)
       /\ (pc = "loop") => (fittings_dict' = fittings_dict /\ dia' = dia /\ vflow' = vflow)
       /\ (pc' = "done") =>
              LET first == FirstOutcome(fn', dia', vflow', length', fittings_dict')
              IN  ret' = first.ret /\ stdout' = first.stdout]_vars

C9_Witness ==
    /\ Finished("head_loss_fittings")
    /\ ~Returned
    /\ stdout # <<>>
    /\ Len(fittings_dict) = 3

\* C10: for a valid diameter and a length >= 0 head_loss_straight_pipe returns the
\* pair (headLossFt, avgVelocityFtPerSec) with avgVelocity = (flowGpm * 0.002228) /
\* area(diameter) and headLoss = f * (length / (diameter/12)) * (avgVelocity^2 /
\* (2 * 32.174)), f the friction factor of the diameter: the velocity of the pair is
\* the one the head loss was computed from.
C10_StraightPipeFormula ==
    (/\ Finished("head_loss_straight_pipe")
     /\ ValidDiameter(dia)
     /\ FLe(Zero, length))
        => LET vel == DesignVelocity(vflow, dia)
               f   == friction_factor_commercial_steel_sch40(dia).val
               ld  == FDiv(length, FDiv(dia, FromInt(12)).val).val
           IN  /\ Returned
               /\ ret.val.vel = vel
               /\ ret.val.head_loss = FMul(FMul(f, ld), VelocityHead(ret.val.vel))

C10_Witness ==
    /\ Finished("head_loss_straight_pipe")
    /\ dia = FromInt(6)
    /\ vflow = FromInt(400)
    /\ length = FromInt(100)
    /\ Returned
    /\ ret.val = [head_loss |-> Round(9555, -4), vel |-> Round(4538, -3)]

=============================================================================
